---- MODULE Spec2Model ----
(***************************************************************************)
(* py2store: the store mixins (py2store/mixins.py) and the relative-path   *)
(* store builder (py2store/key_mappers/paths.py), layered over an ordered  *)
(* backend mapping.                                                        *)
(*                                                                         *)
(* A composed store is a Python class whose method resolution order is the *)
(* sequence `mro`.  Each method of each mixin is one operator; a call      *)
(* self.m(...) is resolved from the head of `mro`, a call super().m(...)   *)
(* made in layer i from layer i+1.  Keys, identifiers and the prefix are   *)
(* strings, modelled as sequences of one-character strings.                *)
(***************************************************************************)
EXTENDS Integers, Sequences, FiniteSets, TLC

\* ------------------------------------------------------------------ bounds
MaxPrefixLen == 1
MaxStore == 2

Chars == {"a", "b"}
Vals == {1, 2}
\* The interface keys the callers use: the empty key, one-character keys and a
\* longer key, so that a key may equal the prefix, begin with it, or neither.
Keys == {<<>>, <<"a">>, <<"b">>, <<"a", "b">>}

RECURSIVE StringsUpTo(_)
StringsUpTo(n) ==
  IF n = 0 THEN {<<>>}
  ELSE LET S == StringsUpTo(n - 1)
       IN  S \cup {Append(s, c) : s \in {t \in S : Len(t) = n - 1}, c \in Chars}

Prefixes == StringsUpTo(MaxPrefixLen)

\* ------------------------------------------------------------- compositions
\* class S(ReadOnlyMixin, dict), class TestPersister(OverWritesNotAllowedMixin, dict), ...
RO_dict == <<"ReadOnlyMixin", "dict">>
OW_dict == <<"OverWritesNotAllowedMixin", "dict">>
RO_OW_dict == <<"ReadOnlyMixin", "OverWritesNotAllowedMixin", "dict">>
OW_RO_dict == <<"OverWritesNotAllowedMixin", "ReadOnlyMixin", "dict">>
Filt_dict == <<"FilteredKeysMixin", "dict">>
OW_Filt_dict == <<"OverWritesNotAllowedMixin", "FilteredKeysMixin", "dict">>
Filt_OW_dict == <<"FilteredKeysMixin", "OverWritesNotAllowedMixin", "dict">>
\* class S(IdentityKeysWrapMixin, Store), class MyStore(PrefixRelativizationMixin, Store),
\* mk_relative_path_store(..., with_key_validation=True), and GetBasedContainerMixin over it
Ident_Store == <<"IdentityKeysWrapMixin", "Store">>
Prefix_Store == <<"PrefixRelativizationMixin", "Store">>
Valid_Store == <<"RelPathStore", "PrefixRelativizationMixin", "Store">>
Get_Valid_Store == <<"GetBasedContainerMixin", "RelPathStore", "PrefixRelativizationMixin", "Store">>

DictCompositions ==
  {RO_dict, OW_dict, RO_OW_dict, OW_RO_dict, Filt_dict, OW_Filt_dict, Filt_OW_dict}
StoreCompositions == {Ident_Store, Prefix_Store, Valid_Store, Get_Valid_Store}

InMro(m, layer) == \E i \in 1..Len(m) : m[i] = layer

\* -------------------------------------------------------------------- state
VARIABLES
  mro,            \* the composed class's method resolution order
  store,          \* the backend mapping: a sequence of [k, v], in insertion order
  prefix,         \* self._prefix
  prefix_length,  \* the lazyprop cache of self._prefix_length (Unset before first use)
  filt_chars,     \* self._key_filt accepts the keys whose first character is in this set
  valid_chars,    \* store.is_valid_key accepts the identifiers whose last character is in this set
  store0,         \* history: the backend at construction
  ref,            \* history: an identity-keyed reference mapping driven by the same
                  \* set and delete calls (kept for the transform-only stores)
  pre,            \* history: the backend before the last call
  result,         \* the last call: [op, k, v, exc, ret]
  calls,          \* the backend primitives the last call invoked, in order
  pc, seen, ck, cv, cexc, overlap, writes   \* two concurrent callers of __setitem__

vars == <<mro, store, prefix, prefix_length, filt_chars, valid_chars, store0, ref,
          pre, result, calls, pc, seen, ck, cv, cexc, overlap, writes>>
concVars == <<pc, seen, ck, cv, cexc, overlap, writes>>

\* --------------------------------------------------------------- exceptions
NoExc == [type |-> "none", msg |-> "", key |-> <<>>]
KeyError(k) == [type |-> "KeyError", msg |-> "", key |-> k]
InvalidKey(k) == [type |-> "KeyError", msg |-> "Key not valid: ", key |-> k]
WritesNotAllowed == [type |-> "WritesNotAllowed", msg |-> "You can't write with that Store", key |-> <<>>]
DeletionsNotAllowed(m) == [type |-> "DeletionsNotAllowed", msg |-> m, key |-> <<>>]
OverWritesNotAllowedError(k) ==
  [type |-> "OverWritesNotAllowedError", msg |-> "already exists and cannot be overwritten", key |-> k]

None == "None"
Unset == -1

\* A method's outcome: the heap after it, the exception it raised (NoExc: none)
\* and the value it returned.
Ok(h, r) == [h |-> h, exc |-> NoExc, ret |-> r]
Raise(h, e) == [h |-> h, exc |-> e, ret |-> None]
Log(h, m, id) == [h EXCEPT !.calls = Append(@, <<m, id>>)]

\* --------------------------------------------------- the backend mapping
IndexOf(s, k) ==
  IF \E i \in 1..Len(s) : s[i].k = k
  THEN CHOOSE i \in 1..Len(s) : s[i].k = k
  ELSE 0
Has(s, k) == IndexOf(s, k) # 0
Val(s, k) == s[IndexOf(s, k)].v
DictKeys(s) == [i \in 1..Len(s) |-> s[i].k]
DictSet(s, k, v) ==
  IF Has(s, k) THEN [s EXCEPT ![IndexOf(s, k)].v = v]
  ELSE Append(s, [k |-> k, v |-> v])
DictDel(s, k) ==
  LET n == IndexOf(s, k)
  IN  SubSeq(s, 1, n - 1) \o SubSeq(s, n + 1, Len(s))

dict__getitem__(k, h) ==
  LET h1 == Log(h, "__getitem__", k)
  IN  IF Has(h.store, k) THEN Ok(h1, Val(h.store, k)) ELSE Raise(h1, KeyError(k))
dict__setitem__(k, v, h) ==
  Ok([Log(h, "__setitem__", k) EXCEPT !.store = DictSet(h.store, k, v)], None)
dict__delitem__(k, h) ==
  LET h1 == Log(h, "__delitem__", k)
  IN  IF Has(h.store, k) THEN Ok([h1 EXCEPT !.store = DictDel(h.store, k)], None)
      ELSE Raise(h1, KeyError(k))
dict__contains__(k, h) == Ok(Log(h, "__contains__", k), Has(h.store, k))
dict__iter__(h) == Ok(Log(h, "__iter__", <<>>), DictKeys(h.store))
dict__len__(h) == Ok(Log(h, "__len__", <<>>), Len(h.store))
dict_pop(k, h) ==
  LET h1 == Log(h, "pop", k)
  IN  IF Has(h.store, k) THEN Ok([h1 EXCEPT !.store = DictDel(h.store, k)], Val(h.store, k))
      ELSE Raise(h1, KeyError(k))
dict_clear(h) == Ok([Log(h, "clear", <<>>) EXCEPT !.store = <<>>], None)

\* ------------------------------------------------- configuration predicates
key_filt(k) == k # <<>> /\ Head(k) \in filt_chars
is_valid_key(id) == id # <<>> /\ id[Len(id)] \in valid_chars

RECURSIVE Call__getitem__(_, _, _), Call__setitem__(_, _, _, _), Call__delitem__(_, _, _),
          Call__contains__(_, _, _), Call__iter__(_, _), Call__len__(_, _),
          Call_pop(_, _, _), Call_clear(_, _),
          Call_id_of_key(_, _, _), Call_key_of_id(_, _, _)

\* ------------------------------------------------------ identity transforms
IdentityKeysWrapMixin_id_of_key(k) == k
IdentityKeysWrapMixin_key_of_id(id) == id
IdentityValsWrapMixin_data_of_obj(v) == v
IdentityValsWrapMixin_obj_of_data(data) == data

\* ---------------------------------------------------- prefix relativization
\* _id[n:] for n >= 0
SliceFrom(s, n) == SubSeq(s, n + 1, Len(s))

\* @lazyprop: the value computed at first use, the cached one after
lazyprop(cached, computed) == IF cached = Unset THEN computed ELSE cached

\* @lazyprop def _prefix_length(self): return len(self._prefix)
PrefixRelativizationMixin_prefix_length(h) ==
  LET n == lazyprop(h.plen, Len(prefix))
  IN  Ok([h EXCEPT !.plen = n], n)

\* Faulty variant: the prefix appended instead of prepended.
id_of_key_Suffixing(k, h) == Ok(h, k \o prefix)

PrefixRelativizationMixin_id_of_key(k, h) == Ok(h, prefix \o k)

\* Faulty variant: the identifier returned without stripping the prefix.
key_of_id_NoStrip(id, h) == Ok(h, id)

PrefixRelativizationMixin_key_of_id(id, h) ==
  LET n == PrefixRelativizationMixin_prefix_length(h)
  IN  Ok(n.h, SliceFrom(id, n.ret))

\* Faulty variant: the error carries the rejected identifier, not the key.
id_of_key_RaisesWithId(i, k, h) ==
  LET r == Call_id_of_key(i + 1, k, h)
  IN  IF r.exc # NoExc THEN r
      ELSE IF is_valid_key(r.ret) THEN Ok(r.h, r.ret)
      ELSE Raise(r.h, InvalidKey(r.ret))

\* mk_relative_path_store(..., with_key_validation=True): cls._id_of_key
RelPathStore_id_of_key(i, k, h) ==
  LET r == Call_id_of_key(i + 1, k, h)
  IN  IF r.exc # NoExc THEN r
      ELSE IF is_valid_key(r.ret) THEN Ok(r.h, r.ret)
      ELSE Raise(r.h, InvalidKey(k))

Call_id_of_key(i, k, h) ==
  CASE mro[i] = "RelPathStore" -> RelPathStore_id_of_key(i, k, h)
    [] mro[i] = "PrefixRelativizationMixin" -> PrefixRelativizationMixin_id_of_key(k, h)
    [] mro[i] = "IdentityKeysWrapMixin" -> Ok(h, IdentityKeysWrapMixin_id_of_key(k))
    [] OTHER -> Call_id_of_key(i + 1, k, h)

Call_key_of_id(i, id, h) ==
  CASE mro[i] = "PrefixRelativizationMixin" -> PrefixRelativizationMixin_key_of_id(id, h)
    [] mro[i] = "IdentityKeysWrapMixin" -> Ok(h, IdentityKeysWrapMixin_key_of_id(id))
    [] OTHER -> Call_key_of_id(i + 1, id, h)

\* map(self._key_of_id, ids), consumed to the end
RECURSIVE MapKeyOfId(_, _)
MapKeyOfId(ids, h) ==
  IF ids = <<>> THEN Ok(h, <<>>)
  ELSE LET r == Call_key_of_id(1, Head(ids), h)
           rest == MapKeyOfId(Tail(ids), r.h)
       IN  Ok(rest.h, <<r.ret>> \o rest.ret)

\* ------------------------------------------------------------------- Store
\* The wrapping store: every operation goes through the key and value
\* transforms of the composed class and then to the backend self.store.
Store__getitem__(k, h) ==
  LET id == Call_id_of_key(1, k, h)
  IN  IF id.exc # NoExc THEN id
      ELSE LET r == dict__getitem__(id.ret, id.h)
           IN  IF r.exc # NoExc THEN r
               ELSE Ok(r.h, IdentityValsWrapMixin_obj_of_data(r.ret))

Store__setitem__(k, v, h) ==
  LET id == Call_id_of_key(1, k, h)
  IN  IF id.exc # NoExc THEN id
      ELSE dict__setitem__(id.ret, IdentityValsWrapMixin_data_of_obj(v), id.h)

Store__delitem__(k, h) ==
  LET id == Call_id_of_key(1, k, h)
  IN  IF id.exc # NoExc THEN id ELSE dict__delitem__(id.ret, id.h)

Store__contains__(k, h) ==
  LET id == Call_id_of_key(1, k, h)
  IN  IF id.exc # NoExc THEN id ELSE dict__contains__(id.ret, id.h)

Store__iter__(h) ==
  LET ids == dict__iter__(h)
  IN  MapKeyOfId(ids.ret, ids.h)

Store__len__(h) == dict__len__(h)

\* -------------------------------------------------------- FilteredKeysMixin
FilteredKeysMixin__iter__(i, h) ==
  LET r == Call__iter__(i + 1, h)
  IN  Ok(r.h, SelectSeq(r.ret, key_filt))

\* Faulty variant: the underlying containment evaluated before the filter.
contains_BackendFirst(i, k, h) ==
  LET r == Call__contains__(i + 1, k, h)
  IN  IF r.exc # NoExc THEN r ELSE Ok(r.h, r.ret /\ key_filt(k))

FilteredKeysMixin__contains__(i, k, h) ==
  IF key_filt(k) THEN Call__contains__(i + 1, k, h) ELSE Ok(h, FALSE)

\* ------------------------------------------------------------ ReadOnlyMixin
\* Faulty variant: the write handed on to the next layer.
setitem_PassesOn(i, k, v, h) == Call__setitem__(i + 1, k, v, h)

ReadOnlyMixin__setitem__(i, k, v, h) == Raise(h, WritesNotAllowed)
ReadOnlyMixin__delitem__(i, k, h) == Raise(h, DeletionsNotAllowed("delete"))
ReadOnlyMixin_clear(i, h) == Raise(h, DeletionsNotAllowed("delete all"))
ReadOnlyMixin_pop(i, k, h) == Raise(h, DeletionsNotAllowed("popping"))

\* ------------------------------------------------ OverWritesNotAllowedMixin
\* Faulty variant: the check always answers "absent".
check_AlwaysAbsent(k, h) == Ok(h, FALSE)

\* if self.__contains__(k): the check, resolved from the head of the mro
OverWritesNotAllowedMixin_check(k, h) == Call__contains__(1, k, h)

\* Faulty variant: the write made on the dict directly, not through super().
write_BypassesSuper(i, contained, k, v, h) ==
  IF contained THEN Raise(h, OverWritesNotAllowedError(k))
  ELSE dict__setitem__(k, v, h)

\* raise OverWritesNotAllowedError(...) or super().__setitem__(k, v)
OverWritesNotAllowedMixin_write(i, contained, k, v, h) ==
  IF contained THEN Raise(h, OverWritesNotAllowedError(k))
  ELSE Call__setitem__(i + 1, k, v, h)

\* Faulty variant: no containment check before the write.
setitem_Unchecked(i, k, v, h) == Call__setitem__(i + 1, k, v, h)

OverWritesNotAllowedMixin__setitem__(i, k, v, h) ==
  LET c == OverWritesNotAllowedMixin_check(k, h)
  IN  IF c.exc # NoExc THEN c
      ELSE OverWritesNotAllowedMixin_write(i, c.ret, k, v, c.h)

\* --------------------------------------------------- GetBasedContainerMixin
GetBasedContainerMixin__contains__(i, k, h) ==
  LET r == Call__getitem__(1, k, h)
  IN  IF r.exc = NoExc THEN Ok(r.h, TRUE)
      ELSE IF r.exc.type = "KeyError" THEN Ok(r.h, FALSE)
      ELSE r

\* ------------------------------------------------------ method resolution
Call__getitem__(i, k, h) ==
  CASE mro[i] = "Store" -> Store__getitem__(k, h)
    [] mro[i] = "dict" -> dict__getitem__(k, h)
    [] OTHER -> Call__getitem__(i + 1, k, h)

Call__setitem__(i, k, v, h) ==
  CASE mro[i] = "ReadOnlyMixin" -> ReadOnlyMixin__setitem__(i, k, v, h)
    [] mro[i] = "OverWritesNotAllowedMixin" -> OverWritesNotAllowedMixin__setitem__(i, k, v, h)
    [] mro[i] = "Store" -> Store__setitem__(k, v, h)
    [] mro[i] = "dict" -> dict__setitem__(k, v, h)
    [] OTHER -> Call__setitem__(i + 1, k, v, h)

Call__delitem__(i, k, h) ==
  CASE mro[i] = "ReadOnlyMixin" -> ReadOnlyMixin__delitem__(i, k, h)
    [] mro[i] = "Store" -> Store__delitem__(k, h)
    [] mro[i] = "dict" -> dict__delitem__(k, h)
    [] OTHER -> Call__delitem__(i + 1, k, h)

Call__contains__(i, k, h) ==
  CASE mro[i] = "FilteredKeysMixin" -> FilteredKeysMixin__contains__(i, k, h)
    [] mro[i] = "GetBasedContainerMixin" -> GetBasedContainerMixin__contains__(i, k, h)
    [] mro[i] = "Store" -> Store__contains__(k, h)
    [] mro[i] = "dict" -> dict__contains__(k, h)
    [] OTHER -> Call__contains__(i + 1, k, h)

Call__iter__(i, h) ==
  CASE mro[i] = "FilteredKeysMixin" -> FilteredKeysMixin__iter__(i, h)
    [] mro[i] = "Store" -> Store__iter__(h)
    [] mro[i] = "dict" -> dict__iter__(h)
    [] OTHER -> Call__iter__(i + 1, h)

Call__len__(i, h) ==
  CASE mro[i] = "Store" -> Store__len__(h)
    [] mro[i] = "dict" -> dict__len__(h)
    [] OTHER -> Call__len__(i + 1, h)

Call_pop(i, k, h) ==
  CASE mro[i] = "ReadOnlyMixin" -> ReadOnlyMixin_pop(i, k, h)
    [] mro[i] = "dict" -> dict_pop(k, h)
    [] OTHER -> Call_pop(i + 1, k, h)

Call_clear(i, h) ==
  CASE mro[i] = "ReadOnlyMixin" -> ReadOnlyMixin_clear(i, h)
    [] mro[i] = "dict" -> dict_clear(h)
    [] OTHER -> Call_clear(i + 1, h)

\* ------------------------------------------------------------ initial states
StoresUpTo(n) ==
  {s \in UNION {[1..m -> [k : Keys, v : Vals]] : m \in 0..n} :
     \A i, j \in 1..Len(s) : s[i].k = s[j].k => i = j}

Callers == {1, 2}
Other(c) == 3 - c

InitResult == [op |-> "init", k |-> <<>>, v |-> 0, id |-> <<>>, exc |-> NoExc, ret |-> None]

ConcIdle ==
  /\ pc = [c \in Callers |-> "start"]
  /\ seen = [c \in Callers |-> FALSE]
  /\ ck = [c \in Callers |-> <<>>]
  /\ cv = [c \in Callers |-> 0]
  /\ cexc = [c \in Callers |-> NoExc]
  /\ overlap = FALSE
  /\ writes = <<>>

\* A store as constructed: a read-only store is built over existing content
\* (nothing can be written through it); the others start over an empty backend.
Init ==
  /\ mro \in DictCompositions \cup StoreCompositions
  /\ prefix \in (IF InMro(mro, "PrefixRelativizationMixin") THEN Prefixes ELSE {<<>>})
  /\ filt_chars \in (IF InMro(mro, "FilteredKeysMixin") THEN SUBSET Chars ELSE {Chars})
  /\ valid_chars \in (IF InMro(mro, "RelPathStore") THEN (SUBSET Chars) \ {{}} ELSE {Chars})
  /\ store0 \in (IF InMro(mro, "ReadOnlyMixin") THEN StoresUpTo(MaxStore) ELSE {<<>>})
  /\ store = store0
  /\ ref = <<>>
  /\ pre = store0
  /\ prefix_length = Unset
  /\ result = InitResult
  /\ calls = <<>>
  /\ ConcIdle

\* ------------------------------------------------------------------ actions
Heap == [store |-> store, plen |-> prefix_length, calls |-> <<>>]

\* One call on the composed store, with outcome r; newref is the reference
\* mapping after the same call.
Apply(op, k, v, id, r, newref) ==
  /\ Len(r.h.store) <= MaxStore
  /\ store' = r.h.store
  /\ prefix_length' = r.h.plen
  /\ calls' = r.h.calls
  /\ pre' = store
  /\ result' = [op |-> op, k |-> k, v |-> v, id |-> id, exc |-> r.exc, ret |-> r.ret]
  /\ ref' = newref
  /\ UNCHANGED <<mro, prefix, filt_chars, valid_chars, store0>>
  /\ UNCHANGED concVars

GetItem(k) ==
  /\ k \in Keys
  /\ Apply("get", k, 0, <<>>, Call__getitem__(1, k, Heap), ref)

\* The reference mapping: a plain insertion-ordered mapping keyed by the
\* interface keys themselves.
Referenced == mro \in {Ident_Store, Prefix_Store}
RefSet(k, v) == IF Referenced THEN DictSet(ref, k, v) ELSE ref
RefDel(k) == IF Referenced /\ Has(ref, k) THEN DictDel(ref, k) ELSE ref

SetItem(k, v) ==
  /\ k \in Keys /\ v \in Vals
  /\ Apply("set", k, v, <<>>, Call__setitem__(1, k, v, Heap), RefSet(k, v))

DelItem(k) ==
  /\ k \in Keys
  /\ Apply("delete", k, 0, <<>>, Call__delitem__(1, k, Heap), RefDel(k))

Contains(k) ==
  /\ k \in Keys
  /\ Apply("contains", k, 0, <<>>, Call__contains__(1, k, Heap), ref)

Iterate ==
  /\ mro \in DictCompositions \cup StoreCompositions
  /\ Apply("iterate", <<>>, 0, <<>>, Call__iter__(1, Heap), ref)

Size ==
  /\ mro \in DictCompositions \cup StoreCompositions
  /\ Apply("len", <<>>, 0, <<>>, Call__len__(1, Heap), ref)

\* pop and clear: ReadOnlyMixin's, or the dict's own
Pop(k) ==
  /\ mro \in DictCompositions
  /\ Apply("pop", k, 0, <<>>, Call_pop(1, k, Heap), ref)

Clear ==
  /\ mro \in DictCompositions
  /\ Apply("clear", <<>>, 0, <<>>, Call_clear(1, Heap), ref)

\* s._key_of_id(s._id_of_key(k))
RoundTrip(k) ==
  /\ mro \in StoreCompositions
  /\ LET id == Call_id_of_key(1, k, Heap)
     IN  IF id.exc # NoExc THEN Apply("roundtrip", k, 0, <<>>, id, ref)
         ELSE Apply("roundtrip", k, 0, id.ret, Call_key_of_id(1, id.ret, id.h), ref)

Next ==
  \/ \E k \in Keys : GetItem(k)
  \/ \E k \in Keys, v \in Vals : SetItem(k, v)
  \/ \E k \in Keys : DelItem(k)
  \/ \E k \in Keys : Contains(k)
  \/ Iterate
  \/ Size
  \/ \E k \in Keys : Pop(k)
  \/ Clear
  \/ \E k \in Keys : RoundTrip(k)

Spec == Init /\ [][Next]_vars

\* ------------------------------------------------- two concurrent __setitem__
\* OverWritesNotAllowedMixin.__setitem__ run by two callers on one store: the
\* interpreter may switch callers between the containment check and the write.
InitConc ==
  /\ mro = OW_dict
  /\ prefix = <<>>
  /\ filt_chars = Chars
  /\ valid_chars = Chars
  /\ store0 \in StoresUpTo(1)
  /\ store = store0
  /\ ref = <<>>
  /\ pre = store0
  /\ prefix_length = Unset
  /\ result = InitResult
  /\ calls = <<>>
  /\ pc = [c \in Callers |-> "start"]
  /\ seen = [c \in Callers |-> FALSE]
  /\ ck \in [Callers -> Keys]
  /\ cv \in [Callers -> Vals]
  /\ cexc = [c \in Callers |-> NoExc]
  /\ overlap = FALSE
  /\ writes = <<>>

ConcCheck(c) ==
  /\ pc[c] = "start"
  /\ LET r == OverWritesNotAllowedMixin_check(ck[c], Heap)
     IN  /\ seen' = [seen EXCEPT ![c] = r.ret]
         /\ calls' = r.h.calls
  /\ pc' = [pc EXCEPT ![c] = "checked"]
  /\ overlap' = (overlap \/ pc[Other(c)] = "checked")
  /\ UNCHANGED <<mro, store, prefix, prefix_length, filt_chars, valid_chars, store0,
                 ref, pre, result, ck, cv, cexc, writes>>

ConcWrite(c) ==
  /\ pc[c] = "checked"
  /\ LET r == OverWritesNotAllowedMixin_write(1, seen[c], ck[c], cv[c], Heap)
     IN  /\ store' = r.h.store
         /\ calls' = r.h.calls
         /\ cexc' = [cexc EXCEPT ![c] = r.exc]
         /\ writes' = IF r.exc = NoExc THEN Append(writes, c) ELSE writes
  /\ pre' = store
  /\ pc' = [pc EXCEPT ![c] = "done"]
  /\ UNCHANGED <<mro, prefix, prefix_length, filt_chars, valid_chars, store0,
                 ref, result, seen, ck, cv, overlap>>

NextConc == \E c \in Callers : ConcCheck(c) \/ ConcWrite(c)

SpecConc == InitConc /\ [][NextConc]_vars

\* =================================================================== claims
Deleters == {"delete", "clear", "pop"}
Keyed == {"get", "set", "delete", "contains"}
StartsWith(s, p) == Len(s) >= Len(p) /\ SubSeq(s, 1, Len(p)) = p
InSeq(s, x) == \E i \in 1..Len(s) : s[i] = x
\* what a plain lookup in mapping m answers for the last call's key
ReadsAs(m) ==
  /\ result.op = "get" =>
       IF Has(m, result.k) THEN result.exc = NoExc /\ result.ret = Val(m, result.k)
       ELSE result.exc = KeyError(result.k)
  /\ result.op = "contains" => result.exc = NoExc /\ result.ret = Has(m, result.k)
  /\ result.op = "iterate" => result.exc = NoExc /\ result.ret = DictKeys(m)
  /\ result.op = "len" => result.exc = NoExc /\ result.ret = Len(m)
\* every entry present before the last call is still there with its value
ValuesKept == \A k \in Keys : Has(pre, k) => Has(store, k) /\ Val(store, k) = Val(pre, k)

\* C1: with ReadOnlyMixin first, set fails with WritesNotAllowed and delete,
\* clear and pop fail with DeletionsNotAllowed, for present and absent keys,
\* without a backend call; the backend stays what it was at construction, and
\* get, contains, iterate and the key count answer from that content.
C1_ReadOnlyGuard ==
  mro[1] = "ReadOnlyMixin" =>
    /\ store = store0
    /\ result.op = "set" => result.exc = WritesNotAllowed /\ calls = <<>>
    /\ result.op \in Deleters => result.exc.type = "DeletionsNotAllowed" /\ calls = <<>>
    /\ ReadsAs(store0)

C1_Witness ==
  /\ mro = RO_dict
  /\ result.op = "pop"
  /\ Has(store0, result.k)
  /\ Len(store) = 2
  /\ result.exc.type = "DeletionsNotAllowed"

\* C2: with OverWritesNotAllowedMixin over the backend, a set on an absent key
\* succeeds and stores the value; a set on a present key fails with
\* OverWritesNotAllowedError and leaves the backend as it was; and no call
\* other than a delete changes the value of an entry already written.
C2_OverwriteGuard ==
  mro = OW_dict =>
    /\ result.op = "set" =>
         IF Has(pre, result.k)
         THEN result.exc = OverWritesNotAllowedError(result.k) /\ store = pre
         ELSE result.exc = NoExc /\ store = Append(pre, [k |-> result.k, v |-> result.v])
    /\ result.op \notin Deleters => ValuesKept

C2_Witness ==
  /\ mro = OW_dict
  /\ result.op = "set"
  /\ Has(pre, result.k)
  /\ Val(pre, result.k) # result.v
  /\ result.exc.type = "OverWritesNotAllowedError"
  /\ Val(store, result.k) = Val(pre, result.k)

\* C3: in a prefix-relativizing store over an initially empty backend, the
\* backend holds exactly the reference mapping's entries under prefix + key,
\* in the same order; get answers the value last set; iterate answers the
\* relative keys in insertion order.
Prefixed(m) == [i \in 1..Len(m) |-> [k |-> prefix \o m[i].k, v |-> m[i].v]]

C3_PrefixRefinement ==
  mro = Prefix_Store =>
    /\ store = Prefixed(ref)
    /\ \A i \in 1..Len(store) : StartsWith(store[i].k, prefix)
    /\ result.op = "get" =>
         IF Has(ref, result.k) THEN result.exc = NoExc /\ result.ret = Val(ref, result.k)
         ELSE result.exc.type = "KeyError"
    /\ result.op = "iterate" => result.exc = NoExc /\ result.ret = DictKeys(ref)

C3_Witness ==
  /\ mro = Prefix_Store
  /\ prefix = <<"a">>
  /\ result.op = "iterate"
  /\ result.ret = << <<"a", "b">>, <<"a">> >>
  /\ DictKeys(store) = << <<"a", "a", "b">>, <<"a", "a">> >>

\* C4: key_of_id(id_of_key(k)) = k for the identity transform and for the
\* prefix transform with any prefix; the identifier starts with the prefix and
\* exactly len(prefix) units are stripped; the cached prefix length, once
\* computed, is the length of the prefix.
C4_RoundTrip ==
  /\ prefix_length # Unset => prefix_length = Len(prefix)
  /\ (result.op = "roundtrip" /\ mro \in {Ident_Store, Prefix_Store}) =>
       /\ result.exc = NoExc
       /\ result.ret = result.k
       /\ StartsWith(result.id, prefix)
       /\ Len(result.ret) = Len(result.id) - Len(prefix)
       /\ mro = Ident_Store => result.id = result.k

C4_Witness ==
  /\ mro = Prefix_Store
  /\ prefix = <<"a">>
  /\ result.op = "roundtrip"
  /\ result.k = <<"a", "b">>
  /\ result.id = <<"a", "a", "b">>
  /\ result.ret = result.k
  /\ prefix_length = 1

\* C5: with a key filter f, iterate yields exactly the underlying keys that
\* satisfy f, in the underlying order; contains(k) is f(k) and underlying
\* containment; when f(k) is false the underlying containment is not invoked.
C5_FilteredKeys ==
  InMro(mro, "FilteredKeysMixin") =>
    /\ result.op = "iterate" =>
         /\ result.exc = NoExc
         /\ \A k \in Keys : InSeq(result.ret, k) <=> (Has(store, k) /\ key_filt(k))
         /\ \A i, j \in 1..Len(result.ret) :
              i < j => IndexOf(store, result.ret[i]) < IndexOf(store, result.ret[j])
    /\ result.op = "contains" =>
         /\ result.exc = NoExc
         /\ result.ret = (key_filt(result.k) /\ Has(store, result.k))
         /\ ~key_filt(result.k) => calls = <<>>
         /\ key_filt(result.k) => calls = << <<"__contains__", result.k>> >>

C5_Witness ==
  /\ mro = Filt_dict
  /\ result.op = "contains"
  /\ Has(store, result.k)
  /\ ~key_filt(result.k)
  /\ result.ret = FALSE
  /\ calls = <<>>

\* C6: in a relative-path store with key validation, get, set, delete and
\* contains of a key whose identifier prefix + k the backend rejects fail with
\* the invalid-key error carrying k, call no backend primitive and leave the
\* backend unchanged; for an accepted identifier id_of_key answers prefix + k
\* and the backend is called with it.
C6_KeyValidation ==
  mro = Valid_Store =>
    /\ (result.op \in Keyed /\ ~is_valid_key(prefix \o result.k)) =>
         result.exc = InvalidKey(result.k) /\ calls = <<>> /\ store = pre
    /\ (result.op \in Keyed /\ is_valid_key(prefix \o result.k)) =>
         /\ result.exc.msg # "Key not valid: "
         /\ Len(calls) = 1
         /\ calls[1][2] = prefix \o result.k
    /\ result.op = "roundtrip" =>
         IF is_valid_key(prefix \o result.k)
         THEN result.exc = NoExc /\ result.id = prefix \o result.k
         ELSE result.exc = InvalidKey(result.k)

C6_Witness ==
  /\ mro = Valid_Store
  /\ prefix = <<"a">>
  /\ result.op = "set"
  /\ ~is_valid_key(prefix \o result.k)
  /\ result.exc = InvalidKey(result.k)
  /\ Len(store) = 1
  /\ store = pre

\* C7: lookup-derived containment answers true when the get succeeds, false
\* only when the key is absent, and lets every other failure through: a key
\* rejected by key validation makes contains fail with the invalid-key error,
\* not answer false.
C7_InvalidKeyPropagates ==
  (mro = Get_Valid_Store /\ result.op = "contains") =>
    IF ~is_valid_key(prefix \o result.k) THEN result.exc = InvalidKey(result.k)
    ELSE result.exc = NoExc /\ result.ret = Has(pre, prefix \o result.k)

\* C8: with both guards stacked, in either order, set, delete, clear and pop
\* are denied and the backend is unchanged, while get, contains, iterate and
\* the key count answer as the backend does; only the error reported for a
\* set on a present key depends on the order.
C8_GuardsCommute ==
  mro \in {RO_OW_dict, OW_RO_dict} =>
    /\ store = pre
    /\ store = store0
    /\ result.op = "set" =>
         result.exc.type = (IF mro = OW_RO_dict /\ Has(pre, result.k)
                            THEN "OverWritesNotAllowedError" ELSE "WritesNotAllowed")
    /\ result.op \in Deleters => result.exc.type = "DeletionsNotAllowed"
    /\ ReadsAs(store0)

C8_Witness ==
  /\ mro = OW_RO_dict
  /\ result.op = "set"
  /\ ~Has(pre, result.k)
  /\ result.exc.type = "WritesNotAllowed"
  /\ Len(store) = 1

\* C9: two callers setting the same absent key.  When the calls do not overlap
\* exactly one succeeds, the other fails with OverWritesNotAllowedError and the
\* first value stays; both succeed only when the calls overlap, and then the
\* later write replaces the earlier value.
BothDone == \A c \in Callers : pc[c] = "done"
SameAbsentKey == ck[1] = ck[2] /\ ~Has(store0, ck[1])

C9_CheckThenWrite ==
  (BothDone /\ SameAbsentKey) =>
    /\ ~overlap =>
         \E c \in Callers :
           /\ cexc[c] = NoExc
           /\ cexc[Other(c)] = OverWritesNotAllowedError(ck[c])
           /\ writes = <<c>>
           /\ Val(store, ck[c]) = cv[c]
    /\ (\A c \in Callers : cexc[c] = NoExc) =>
         /\ overlap
         /\ Len(writes) = 2
         /\ Val(store, ck[1]) = cv[writes[2]]

C9_Witness ==
  /\ BothDone
  /\ SameAbsentKey
  /\ \A c \in Callers : cexc[c] = NoExc
  /\ cv[1] # cv[2]
  /\ Len(writes) = 2
  /\ Val(store, ck[1]) = cv[writes[2]]
  /\ Val(store, ck[1]) # cv[writes[1]]

\* C10: with the overwrite guard and the key filter stacked, in either order,
\* a set on a key the backend holds fails with OverWritesNotAllowedError even
\* when the filter hides the key, and no call other than a delete changes the
\* value of an entry already written.
C10_GuardSeesBackend ==
  mro \in {OW_Filt_dict, Filt_OW_dict} =>
    /\ (result.op = "set" /\ Has(pre, result.k)) =>
         result.exc.type = "OverWritesNotAllowedError" /\ store = pre
    /\ result.op \notin Deleters => ValuesKept
====
